---------------------------- MODULE Spec2Model ----------------------------
(***************************************************************************)
(* A model of the three scripts of e2b-template:                           *)
(*   render_mp4.py        the render driver (crash shield, strategy        *)
(*                        ladder, progress tracker, terminal record)       *)
(*   extract_frames.py    the metadata extractor (strategy ladder)         *)
(*   read_blend_header.py the header sniffer and its fallback synthesis    *)
(*                                                                         *)
(* One run of one script is one behaviour.  proc names the script, pc the  *)
(* statement about to be executed.  The scene engine (bpy) is an opaque    *)
(* collaborator: every call of it may return, raise an Exception with one  *)
(* of EngineMsgs, or (render driver) raise KeyboardInterrupt; during the   *)
(* render call it fires the registered lifecycle callbacks in any order    *)
(* with any frame_current.  Signals are delivered between two statements;  *)
(* the Python-level handler runs at the statement the main line is at.     *)
(* The diagnostic channel itself is taken to be writable.                  *)
(***************************************************************************)
EXTENDS Integers, Sequences, FiniteSets, TLC

(* ------------------------------ bounds --------------------------------- *)
\* callbacks the engine fires during one render call
MaxCallbacks == 2
\* asynchronous events (signals, SIGINT) delivered to one run
MaxAsync == 1
\* writes of the progress file that fail in one run
MaxWriteFailures == 1

(* ------------------------------ helpers -------------------------------- *)
Max(a, b) == IF a >= b THEN a ELSE b

Last(s) == s[Len(s)]

\* Python's `needle in hay` on strings held as sequences of characters
Contains(hay, needle) ==
    \E i \in 0..(Len(hay) - Len(needle)) :
        SubSeq(hay, i + 1, i + Len(needle)) = needle

Upper == <<"A","B","C","D","E","F","G","H","I","J","K","L","M",
           "N","O","P","Q","R","S","T","U","V","W","X","Y","Z">>
Lowers == <<"a","b","c","d","e","f","g","h","i","j","k","l","m",
            "n","o","p","q","r","s","t","u","v","w","x","y","z">>

\* str.lower() on one character
LowerChar(c) ==
    IF \E k \in 1..Len(Upper) : Upper[k] = c
    THEN Lowers[CHOOSE k \in 1..Len(Upper) : Upper[k] = c]
    ELSE c

\* str.lower()
Lower(s) == [k \in 1..Len(s) |-> LowerChar(s[k])]

(* ------------------------- the engine's messages ------------------------ *)
\* messages an engine failure may carry, str(e)
EngineMsgs == {"Segmentation fault", "GPU FAULT", "segmentation error"}

\* the characters of each message
Text(m) ==
    CASE m = "Segmentation fault" ->
           <<"S","e","g","m","e","n","t","a","t","i","o","n"," ","f","a","u","l","t">>
      [] m = "GPU FAULT" -> <<"G","P","U"," ","F","A","U","L","T">>
      [] OTHER ->
           <<"s","e","g","m","e","n","t","a","t","i","o","n"," ","e","r","r","o","r">>

\* a check that lost the lower-cased "fault" test and the case of "Segmentation"
IsFatal_never(m) == FALSE

\* render_mp4.py:99, extract_frames.py:47
\*   "Segmentation" in str(e) or "fault" in str(e).lower()
IsFatal(m) ==
    \/ Contains(Text(m), <<"S","e","g","m","e","n","t","a","t","i","o","n">>)
    \/ Contains(Lower(Text(m)), <<"f","a","u","l","t">>)

(* --------------------------- program constants -------------------------- *)
\* render_mp4.py:79-88, extract_frames.py:27-36: the loader options each
\* strategy switches off, in the declared order
strategies ==
    << {"load_ui", "use_scripts", "use_embedded_data"},
       {"load_ui", "use_scripts"},
       {"load_ui"},
       {} >>

NumStrategies == Len(strategies)

\* signal.SIGABRT, signal.SIGSEGV, signal.SIGTERM (render_mp4.py:24-26)
Intercepted == {6, 11, 15}

\* signal.SIGINT (2), left to Python's default handler, which raises
\* KeyboardInterrupt in the main line
Interrupts == {2}

\* f"{signum}"
NumStr(n) ==
    CASE n = 6 -> "6" [] n = 11 -> "11" [] n = 15 -> "15" [] OTHER -> "?"

blend_file == "/tmp/uploaded.blend"
output_path == "/tmp/output.mp4"

(* ------------------------------ environment ----------------------------- *)
\* scenes the opened file may hold: frame range, fps, resolution
Scenes ==
    { [frame_start |-> 1, frame_end |-> 3, fps |-> 24, res |-> <<1920, 1080>>],
      [frame_start |-> 2, frame_end |-> 2, fps |-> 30, res |-> <<1920, 1080>>],
      [frame_start |-> 3, frame_end |-> 1, fps |-> 24, res |-> <<1280, 720>>] }

\* values of scene.frame_current the engine hands to a callback
Frames == {0, 2}

\* the output artifact after the render call: absent, empty, or with bytes
OutputStates ==
    { [exists |-> FALSE, size |-> 0],
      [exists |-> TRUE, size |-> 0],
      [exists |-> TRUE, size |-> 5] }

\* a progress record left by an earlier run
OldProgress ==
    [status |-> "rendering", frameStart |-> 1, frameEnd |-> 3, frameCount |-> 3,
     currentFrame |-> 1, framesDone |-> 1, startedAt |-> 7, updatedAt |-> 9]

\* what /tmp/render_progress.json holds when the run starts: no file, text that
\* is no JSON, a JSON list, an object without a startedAt, a progress record
ProgressFiles ==
    { [kind |-> "none", data |-> <<>>],
      [kind |-> "corrupt", data |-> <<>>],
      [kind |-> "list", data |-> <<>>],
      [kind |-> "nokey", data |-> <<>>],
      [kind |-> "record", data |-> <<OldProgress>>] }

(* -------------------------------- state --------------------------------- *)
VARIABLES
    proc,             \* "render" | "extract" | "sniff": the script running
    pc,               \* the statement about to run; "done" after exit
    inputExists,      \* os.path.exists(blend_file)
    handlerInstalled, \* signal.signal(...) has run
    strategy,         \* index of the strategy of the current loop iteration
    opened,           \* the local `opened`
    calls,            \* history: the engine calls made, [op, i, res]
    exc,              \* <<>> or <<e>>: the exception the except clause holds
    out,              \* history: JSON records printed, [chan, rec]
    exit,             \* <<>> or <<code>>: the process's exit code
    asyncLog,         \* history: asynchronous events delivered, [num, at, cb]
    callbacks,        \* bpy.app.handlers.render_*: the callbacks registered
    cb,               \* <<>> or <<[name, frame_current]>>: callback running
    ncb,              \* callbacks fired so far
    aborted,          \* the engine has fired render_cancel
    scene,            \* <<>> or <<s>>: bpy.context.scene once a file is open
    locals,           \* frame_start, frame_end, frame_count, started_at, fps
    clock,            \* time.time()
    progress,         \* the progress file
    progress0,        \* history: the progress file when the run started
    writes,           \* history: _write_progress calls, [rec, ok]
    outputFile,       \* the output artifact
    blend,            \* <<>> or <<[bytes, readable]>>: the file the sniffer met
    header_info,      \* <<>> (None) or <<info>>
    fellBack          \* history: the sniffer runs as the extractor's fallback

vars == <<proc, pc, inputExists, handlerInstalled, strategy, opened, calls,
          exc, out, exit, asyncLog, callbacks, cb, ncb, aborted, scene,
          locals, clock, progress, progress0, writes, outputFile, blend,
          header_info, fellBack>>

\* the variables of the strategy ladder
ladderVars == <<strategy, opened, calls>>
\* the variables of the progress tracker
trackVars == <<callbacks, cb, ncb, aborted, clock, progress, writes>>
\* the variables of the header sniffer
sniffVars == <<blend, header_info, fellBack>>
\* what no statement of a script changes
envVars == <<proc, inputExists, progress0, handlerInstalled>>

NoLocals == [frame_start |-> 0, frame_end |-> 0, frame_count |-> 0,
             started_at |-> 0, fps |-> 0]

(* ------------------------------ exceptions ------------------------------ *)
\* a Python exception: its class name, str(e), and the code of a SystemExit
Exc(type, msg) == [type |-> type, msg |-> msg, code |-> 0]
SystemExit(code) == [type |-> "SystemExit", msg |-> <<>>, code |-> code]
KeyboardInterrupt == Exc("KeyboardInterrupt", <<>>)

\* render_mp4.py:71-233: the statements inside the driver's try
TryBody == {"check", "reset", "open", "scene", "install", "call_render",
            "render", "verify", "complete", "emit", "exit0"}

\* the status of a process that an exception leaves without being caught:
\* a SystemExit gives its code, SIGINT's KeyboardInterrupt ends it by signal 2
Uncaught(e) ==
    IF e.type = "SystemExit" THEN e.code
    ELSE IF e.type = "KeyboardInterrupt" THEN -2 ELSE 1

\* render_mp4.py:235-263 (extract_frames.py:92): where exception e, raised
\* while the main line is at `at`, takes the run
\*   inside the try: except KeyboardInterrupt / except SystemExit: raise /
\*                   except Exception
\*   inside the try of 253-255: the bare except of 256
\*   inside the try of 258-260: the bare except of 261
\*   anywhere else: out of the script
Propagate(e, at) ==
    IF at \in TryBody
    THEN CASE e.type = "KeyboardInterrupt" /\ proc = "render" ->
                pc' = "ki_print" /\ exc' = <<e>> /\ exit' = exit
           [] e.type = "SystemExit" ->
                pc' = "done" /\ exc' = exc /\ exit' = <<e.code>>
           [] OTHER ->
                pc' = "ex_print" /\ exc' = <<e>> /\ exit' = exit
    ELSE IF at \in {"ex_print", "ex_flush"}
    THEN pc' = "ex_stdout" /\ exc' = exc /\ exit' = exit
    ELSE IF at = "ex_stdout"
    THEN pc' = "ex_exit" /\ exc' = exc /\ exit' = exit
    ELSE pc' = "done" /\ exc' = exc /\ exit' = <<Uncaught(e)>>

(* ------------------------------- records -------------------------------- *)
\* render_mp4.py:11-15
SignalRecord(signum) ==
    [success |-> FALSE,
     error |-> <<"Process terminated by signal ", NumStr(signum)>>,
     error_type |-> "SignalError"]

\* render_mp4.py:236-240
InterruptRecord ==
    [success |-> FALSE, error |-> <<"Process interrupted">>,
     error_type |-> "KeyboardInterrupt"]

\* render_mp4.py:248-252
ErrorRecord(e) ==
    [success |-> FALSE, error |-> e.msg, error_type |-> e.type]

\* extract_frames.py:93-96
ExtractErrorRecord(e) == [error |-> e.msg, error_type |-> e.type]

\* render_mp4.py:206-218
ResultRecord(L, s, o) ==
    [success |-> TRUE, output_path |-> output_path, file_size |-> o.size,
     frame_start |-> L.frame_start, frame_end |-> L.frame_end,
     frame_count |-> L.frame_count, fps |-> s.fps, resolution |-> s.res]

\* print(json.dumps(rec), file=sys.stderr)
Stderr(rec) == [chan |-> "stderr", rec |-> rec]
\* print(json.dumps(rec), file=sys.stdout)
Stdout(rec) == [chan |-> "stdout", rec |-> rec]

(* ------------------------------ initial state --------------------------- *)
Init ==
    /\ proc \in {"render", "extract", "sniff"}
    /\ pc = CASE proc = "render" -> "boot"
              [] proc = "extract" -> "check"
              [] OTHER -> "sniff_check"
    /\ inputExists \in BOOLEAN
    /\ handlerInstalled = FALSE
    /\ strategy = 1
    /\ opened = FALSE
    /\ calls = <<>>
    /\ exc = <<>>
    /\ out = <<>>
    /\ exit = <<>>
    /\ asyncLog = <<>>
    /\ callbacks = {}
    /\ cb = <<>>
    /\ ncb = 0
    /\ aborted = FALSE
    /\ scene = <<>>
    /\ locals = NoLocals
    /\ clock = 100
    /\ progress0 \in IF proc = "render" THEN ProgressFiles
                     ELSE {[kind |-> "none", data |-> <<>>]}
    /\ progress = progress0
    /\ writes = <<>>
    /\ outputFile = [exists |-> FALSE, size |-> 0]
    /\ blend = <<>>
    /\ header_info = <<>>
    /\ fellBack = FALSE

(* ------------------------- render driver: start ------------------------- *)
\* a driver that starts without registering the handler
RegisterHandlers_skipped ==
    /\ proc = "render" /\ pc = "boot"
    /\ pc' = "check"
    /\ UNCHANGED <<envVars, ladderVars, exc, out, exit, asyncLog, trackVars,
                   scene, locals, outputFile, sniffVars>>

\* render_mp4.py:24-26  signal.signal(SIGSEGV / SIGABRT / SIGTERM, signal_handler)
RegisterHandlers ==
    /\ proc = "render" /\ pc = "boot"
    /\ handlerInstalled' = TRUE
    /\ pc' = "check"
    /\ UNCHANGED <<proc, inputExists, progress0, ladderVars, exc, out, exit,
                   asyncLog, trackVars, scene, locals, outputFile, sniffVars>>

(* --------------------------- the strategy ladder ------------------------ *)
\* a check that never fails
InputCheckPasses_always(exists) == TRUE

\* render_mp4.py:73, extract_frames.py:21  os.path.exists(blend_file)
InputCheckPasses(exists) == exists

\* render_mp4.py:73-74, extract_frames.py:21-22
CheckInput ==
    /\ proc \in {"render", "extract"} /\ pc = "check"
    /\ IF InputCheckPasses(inputExists)
       THEN pc' = "reset" /\ UNCHANGED <<exc, exit>>
       ELSE Propagate(Exc("FileNotFoundError",
                          <<"Blend file not found: ", blend_file>>), pc)
    /\ UNCHANGED <<envVars, ladderVars, out, asyncLog, trackVars, scene, locals,
                   outputFile, sniffVars>>

\* what a call of the engine does: it returns, raises an Exception carrying one
\* of EngineMsgs, or (render driver) raises KeyboardInterrupt
EngineResults ==
    {[k |-> "ok", msg |-> ""]}
        \cup {[k |-> "raise", msg |-> m] : m \in EngineMsgs}
        \cup (IF proc = "render" THEN {[k |-> "interrupt", msg |-> ""]} ELSE {})

\* the record of one engine call: the operator, the loop iteration that made
\* it, and how it ended ("ok", "interrupt", or the message of its failure)
Call(op, i, r) ==
    [op |-> op, i |-> i, res |-> IF r.k = "raise" THEN r.msg ELSE r.k]

\* the exception of a failed engine call (bpy raises RuntimeError)
EngineError(m) == Exc("RuntimeError", <<m>>)

\* a failure of another class, without the message
NotOpenedError_bare == Exc("Exception", <<>>)

\* render_mp4.py:105, extract_frames.py:53
\*   raise RuntimeError("Failed to open blend file with any strategy")
NotOpenedError ==
    Exc("RuntimeError", <<"Failed to open blend file with any strategy">>)

\* a loop that skips a strategy after a failure
NextStrategy_skip(i) == i + 2

\* render_mp4.py:90, extract_frames.py:38  for strategy in strategies
NextStrategy(i) == i + 1

\* render_mp4.py:97-102, extract_frames.py:45-50: the except clause of one
\* attempt, for an Exception with message m
LadderExcept(m) ==
    IF IsFatal(m)
    THEN /\ Propagate(EngineError(m), pc)
         /\ strategy' = strategy
    ELSE /\ strategy' = NextStrategy(strategy)
         /\ pc' = IF NextStrategy(strategy) > NumStrategies THEN "scene" ELSE "reset"
         /\ UNCHANGED <<exc, exit>>

\* an attempt that opens without resetting the engine
ResetEngine_skipped ==
    /\ proc \in {"render", "extract"} /\ pc = "reset"
    /\ pc' = "open"
    /\ UNCHANGED <<envVars, ladderVars, exc, out, exit, asyncLog, trackVars,
                   scene, locals, outputFile, sniffVars>>

\* render_mp4.py:93, extract_frames.py:41  bpy.ops.wm.read_homefile(app_template="")
ResetEngine ==
    /\ proc \in {"render", "extract"} /\ pc = "reset"
    /\ \E r \in EngineResults :
          /\ calls' = Append(calls, Call("read_homefile", strategy, r))
          /\ CASE r.k = "ok" -> pc' = "open" /\ UNCHANGED <<strategy, exc, exit>>
               [] r.k = "raise" -> LadderExcept(r.msg)
               [] OTHER -> Propagate(KeyboardInterrupt, pc) /\ UNCHANGED strategy
    /\ UNCHANGED <<envVars, opened, out, asyncLog, trackVars, scene, locals,
                   outputFile, sniffVars>>

\* render_mp4.py:94-96, extract_frames.py:42-44
\*   bpy.ops.wm.open_mainfile(**strategy); opened = True; break
OpenFile ==
    /\ proc \in {"render", "extract"} /\ pc = "open"
    /\ \E r \in EngineResults :
          /\ calls' = Append(calls, Call("open_mainfile", strategy, r))
          /\ CASE r.k = "ok" ->
                    /\ opened' = TRUE
                    /\ pc' = "scene"
                    /\ \E s \in Scenes : scene' = <<s>>
                    /\ UNCHANGED <<strategy, exc, exit>>
               [] r.k = "raise" -> LadderExcept(r.msg) /\ UNCHANGED <<opened, scene>>
               [] OTHER -> /\ Propagate(KeyboardInterrupt, pc)
                           /\ UNCHANGED <<strategy, opened, scene>>
    /\ UNCHANGED <<envVars, out, asyncLog, trackVars, locals, outputFile, sniffVars>>

(* ------------------------ render driver: the scene ---------------------- *)
\* a start time taken afresh whatever the file holds
ensure_started_at_fresh(file, now) == now

\* render_mp4.py:45-52, 64-69  _ensure_started_at over _read_existing_progress:
\* the startedAt of a readable progress record, else time.time()
ensure_started_at(file, now) ==
    IF file.kind = "record" THEN file.data[1].startedAt ELSE now

\* render_mp4.py:113  frame_count = int(frame_end - frame_start + 1)
frame_count(frame_start, frame_end) == frame_end - frame_start + 1

\* render_mp4.py:104-113
ReadScene ==
    /\ proc = "render" /\ pc = "scene"
    /\ IF ~opened
       THEN /\ Propagate(NotOpenedError, pc)
            /\ UNCHANGED <<locals, clock>>
       ELSE IF progress.kind = "list"
       THEN \* existing.get on a JSON list: AttributeError
            /\ Propagate(Exc("AttributeError",
                             <<"'list' object has no attribute 'get'">>), pc)
            /\ UNCHANGED <<locals, clock>>
       ELSE /\ locals' = [frame_start |-> scene[1].frame_start,
                          frame_end |-> scene[1].frame_end,
                          frame_count |-> frame_count(scene[1].frame_start,
                                                      scene[1].frame_end),
                          started_at |-> ensure_started_at(progress, clock),
                          fps |-> scene[1].fps]
            /\ clock' = clock + 1
            /\ pc' = "install"
            /\ UNCHANGED <<exc, exit>>
    /\ UNCHANGED <<envVars, ladderVars, out, asyncLog, callbacks, cb, ncb, aborted,
                   progress, writes, scene, outputFile, sniffVars>>

\* render_mp4.py:153-194: clear and register the three callbacks, configure
\* the render, announce it
InstallCallbacks ==
    /\ proc = "render" /\ pc = "install"
    /\ callbacks' = {"init", "post", "cancel"}
    /\ pc' = "call_render"
    /\ UNCHANGED <<envVars, ladderVars, exc, out, exit, asyncLog, cb, ncb, aborted,
                   clock, progress, writes, scene, locals, outputFile, sniffVars>>

\* render_mp4.py:197  bpy.ops.render.render(animation=True) is entered
CallRender ==
    /\ proc = "render" /\ pc = "call_render"
    /\ calls' = Append(calls, [op |-> "render", i |-> 0, res |-> "called"])
    /\ pc' = "render"
    /\ UNCHANGED <<envVars, strategy, opened, exc, out, exit, asyncLog,
                   trackVars, scene, locals, outputFile, sniffVars>>

(* --------------------------- progress tracker --------------------------- *)
\* render_mp4.py:122, 148  max(0, int(_scene.frame_current) - frame_start)
InitFramesDone(cur, L) == Max(0, cur - L.frame_start)

\* render_mp4.py:129  max(0, current_frame - frame_start + 1)
PostFramesDone(cur, L) == Max(0, cur - L.frame_start + 1)

Payload(status, cur, done, started, L, now) ==
    [status |-> status, frameStart |-> L.frame_start, frameEnd |-> L.frame_end,
     frameCount |-> L.frame_count, currentFrame |-> cur, framesDone |-> done,
     startedAt |-> started, updatedAt |-> now]

\* render_mp4.py:115-125
on_render_init(cur, L, now) ==
    Payload("rendering", cur, InitFramesDone(cur, L), L.started_at, L, now)

\* render_mp4.py:127-139
on_render_post(cur, L, now) ==
    Payload("rendering", cur, PostFramesDone(cur, L), L.started_at, L, now)

\* render_mp4.py:141-151
on_render_cancel(cur, L, now) ==
    Payload("cancelled", cur, InitFramesDone(cur, L), L.started_at, L, now)

\* render_mp4.py:220-229
completed_payload(L, now) ==
    Payload("completed", L.frame_end, L.frame_count, L.started_at, L, now)

\* the exception of a write of the progress file that fails (open, json.dump
\* or flush)
WriteError == Exc("OSError", <<"cannot write ", "/tmp/render_progress.json">>)

\* a clause that catches nothing
ExceptException_nothing(e) == FALSE

\* render_mp4.py:60  except Exception: every exception but the two that do
\* not derive from Exception
ExceptException(e) == e.type \notin {"SystemExit", "KeyboardInterrupt"}

\* render_mp4.py:55-61  _write_progress: the file is overwritten, or the write
\* fails; what is not caught at line 60 is raised at the caller's statement
WriteProgress(payload, ok) ==
    /\ ok \/ Cardinality({k \in 1..Len(writes) : ~writes[k].ok}) < MaxWriteFailures
    /\ writes' = Append(writes, [rec |-> payload, ok |-> ok])
    /\ progress' = IF ok THEN [kind |-> "record", data |-> <<payload>>] ELSE progress
    /\ clock' = clock + 1
    /\ IF ok \/ ExceptException(WriteError)
       THEN /\ pc' = (IF pc = "complete" THEN "emit" ELSE pc)
            /\ UNCHANGED <<exc, exit>>
       ELSE Propagate(WriteError, pc)

\* the engine fires a registered callback with some frame_current; once it
\* has fired render_cancel the render is aborted and it fires no other.
\* The render call reads nothing the ladder left but the open scene, so the
\* callbacks are explored in the runs whose file opened at the first attempt.
EngineFire ==
    /\ proc = "render" /\ pc = "render" /\ cb = <<>>
    /\ ncb < MaxCallbacks /\ ~aborted
    /\ strategy = 1
    /\ \E name \in callbacks, f \in Frames :
          /\ cb' = <<[name |-> name, frame_current |-> f]>>
          /\ aborted' = (name = "cancel")
    /\ ncb' = ncb + 1
    /\ UNCHANGED <<envVars, ladderVars, pc, exc, out, exit, asyncLog, callbacks,
                   clock, progress, writes, scene, locals, outputFile, sniffVars>>

\* render_mp4.py:115-151: the callback builds its payload and writes it
CallbackWrite ==
    /\ proc = "render" /\ pc = "render" /\ cb # <<>>
    /\ \E ok \in BOOLEAN :
          WriteProgress(
              CASE cb[1].name = "init" -> on_render_init(cb[1].frame_current, locals, clock)
                [] cb[1].name = "post" -> on_render_post(cb[1].frame_current, locals, clock)
                [] OTHER -> on_render_cancel(cb[1].frame_current, locals, clock),
              ok)
    /\ cb' = <<>>
    /\ UNCHANGED <<envVars, ladderVars, out, asyncLog, callbacks,
                   ncb, aborted, scene, locals, outputFile, sniffVars>>

(* ------------------ render driver: after the render call ---------------- *)
\* how the render call ends: the message of its failure is not looked at
RenderResults == {r \in EngineResults : r.k = "raise" => r.msg = "GPU FAULT"}

\* render_mp4.py:197: the render call ends: it returns, leaving the output
\* artifact in some state, or raises (the artifact is then never looked at)
RenderReturn ==
    /\ proc = "render" /\ pc = "render" /\ cb = <<>>
    /\ \E r \in RenderResults :
          /\ calls' = [calls EXCEPT ![Len(calls)] = Call("render", 0, r)]
          /\ CASE r.k = "ok" -> /\ \E o \in OutputStates : outputFile' = o
                                /\ pc' = "verify"
                                /\ UNCHANGED <<exc, exit>>
               [] r.k = "raise" -> /\ Propagate(EngineError(r.msg), pc)
                                   /\ UNCHANGED outputFile
               [] OTHER -> /\ Propagate(KeyboardInterrupt, pc)
                           /\ UNCHANGED outputFile
    /\ UNCHANGED <<envVars, strategy, opened, out, asyncLog, trackVars, scene,
                   locals, sniffVars>>

\* render_mp4.py:200  os.path.exists(output_path)
OutputVerified(o) == o.exists

\* render_mp4.py:199-204
VerifyOutput ==
    /\ proc = "render" /\ pc = "verify"
    /\ IF OutputVerified(outputFile)
       THEN pc' = "complete" /\ UNCHANGED <<exc, exit>>
       ELSE Propagate(Exc("FileNotFoundError",
                          <<"Output file was not created: ", output_path>>), pc)
    /\ UNCHANGED <<envVars, ladderVars, out, asyncLog, trackVars, scene, locals,
                   outputFile, sniffVars>>

\* a driver that goes from the artifact check to the result with no write
WriteCompleted_skipped ==
    /\ proc = "render" /\ pc = "complete"
    /\ pc' = "emit"
    /\ UNCHANGED <<envVars, ladderVars, exc, out, exit, asyncLog, trackVars,
                   scene, locals, outputFile, sniffVars>>

\* render_mp4.py:220-229
WriteCompleted ==
    /\ proc = "render" /\ pc = "complete"
    /\ \E ok \in BOOLEAN : WriteProgress(completed_payload(locals, clock), ok)
    /\ UNCHANGED <<envVars, ladderVars, out, asyncLog, callbacks, cb,
                   ncb, aborted, scene, locals, outputFile, sniffVars>>

\* render_mp4.py:206-218, 232  print(json.dumps(result), file=sys.stderr)
EmitResult ==
    /\ proc = "render" /\ pc = "emit"
    /\ out' = Append(out, Stderr(ResultRecord(locals, scene[1], outputFile)))
    /\ pc' = "exit0"
    /\ UNCHANGED <<envVars, ladderVars, exc, exit, asyncLog, trackVars, scene,
                   locals, outputFile, sniffVars>>

\* render_mp4.py:233, 244-246  sys.exit(0), re-raised by except SystemExit
ExitSuccess ==
    /\ proc = "render" /\ pc = "exit0"
    /\ Propagate(SystemExit(0), pc)
    /\ UNCHANGED <<envVars, ladderVars, out, asyncLog, trackVars, scene, locals,
                   outputFile, sniffVars>>

(* --------------------- render driver: except clauses -------------------- *)
\* render_mp4.py:235-242
InterruptPrint ==
    /\ proc = "render" /\ pc = "ki_print"
    /\ out' = Append(out, Stderr(InterruptRecord))
    /\ pc' = "ki_exit"
    /\ UNCHANGED <<envVars, ladderVars, exc, exit, asyncLog, trackVars, scene,
                   locals, outputFile, sniffVars>>

\* render_mp4.py:243  sys.exit(130)
InterruptExit ==
    /\ proc = "render" /\ pc = "ki_exit"
    /\ Propagate(SystemExit(130), pc)
    /\ UNCHANGED <<envVars, ladderVars, out, asyncLog, trackVars, scene, locals,
                   outputFile, sniffVars>>

\* render_mp4.py:247-254  print(json.dumps(error_result), file=sys.stderr)
ErrorPrint ==
    /\ proc = "render" /\ pc = "ex_print"
    /\ out' = Append(out, Stderr(ErrorRecord(exc[1])))
    /\ pc' = "ex_flush"
    /\ UNCHANGED <<envVars, ladderVars, exc, exit, asyncLog, trackVars, scene,
                   locals, outputFile, sniffVars>>

\* render_mp4.py:255  sys.stderr.flush()
ErrorFlush ==
    /\ proc = "render" /\ pc = "ex_flush"
    /\ pc' = "ex_exit"
    /\ UNCHANGED <<envVars, ladderVars, exc, out, exit, asyncLog, trackVars, scene,
                   locals, outputFile, sniffVars>>

\* render_mp4.py:256-262: the last resort, the record on stdout
ErrorStdout ==
    /\ proc = "render" /\ pc = "ex_stdout"
    /\ out' = Append(out, Stdout(ErrorRecord(exc[1])))
    /\ pc' = "ex_exit"
    /\ UNCHANGED <<envVars, ladderVars, exc, exit, asyncLog, trackVars, scene,
                   locals, outputFile, sniffVars>>

\* an exit that first marks the progress file
ErrorExit_marking ==
    /\ proc = "render" /\ pc = "ex_exit"
    /\ Propagate(SystemExit(1), pc)
    /\ progress' = [kind |-> "record", data |-> <<[status |-> "crashed"]>>]
    /\ UNCHANGED <<envVars, ladderVars, out, asyncLog, callbacks, cb, ncb, aborted,
                   clock, writes, scene, locals, outputFile, sniffVars>>

\* render_mp4.py:263  sys.exit(1)
ErrorExit ==
    /\ proc = "render" /\ pc = "ex_exit"
    /\ Propagate(SystemExit(1), pc)
    /\ UNCHANGED <<envVars, ladderVars, out, asyncLog, trackVars, scene, locals,
                   outputFile, sniffVars>>

(* ----------------------------- crash shield ----------------------------- *)
\* an exit code that drops the 128
SignalExitCode_raw(signum) == signum

\* render_mp4.py:21  sys.exit(128 + signum)
SignalExitCode(signum) == 128 + signum

\* render_mp4.py:9-21  signal_handler, run at the statement the main line is
\* at: the record is printed, then SystemExit is raised there.  A SystemExit
\* raised while a callback writes progress is no Exception: _write_progress
\* (60) lets it through and it ends the process.
signal_handler(signum) ==
    /\ out' = Append(out, Stderr(SignalRecord(signum)))
    /\ Propagate(SystemExit(SignalExitCode(signum)), pc)
    /\ cb' = <<>>
    /\ UNCHANGED <<ncb, aborted>>

\* an intercepted signal, or SIGINT, reaches the render driver
\*   no handler installed yet: the signal's default action ends the process
\*   SIGINT: KeyboardInterrupt is raised at the statement the main line is at;
\*     raised inside a callback it passes _write_progress (no Exception) and
\*     the engine either lets it out of the render call or drops it
Deliver ==
    /\ proc = "render" /\ pc # "done"
    /\ Len(asyncLog) < MaxAsync
    /\ \E n \in Intercepted \cup Interrupts, dropped \in BOOLEAN :
          /\ asyncLog' = Append(asyncLog, [num |-> n, at |-> pc, cb |-> cb # <<>>])
          /\ IF n \in Intercepted
             THEN /\ ~dropped
                  /\ IF handlerInstalled
                     THEN signal_handler(n)
                     ELSE /\ pc' = "done" /\ exit' = <<-n>>
                          /\ UNCHANGED <<exc, out, cb, ncb, aborted>>
             ELSE /\ dropped => cb # <<>>
                  /\ IF dropped
                     THEN UNCHANGED <<pc, exc, exit>>
                     ELSE Propagate(KeyboardInterrupt, pc)
                  /\ cb' = <<>>
                  /\ UNCHANGED <<out, ncb, aborted>>
    /\ UNCHANGED <<envVars, ladderVars, callbacks, clock, progress, writes, scene,
                   locals, outputFile, sniffVars>>

(* --------------------------- metadata extractor ------------------------- *)
\* a range taken as it comes
ValidRange_asis(fs, fe) == <<fs, fe>>

\* extract_frames.py:70-71  if frame_start > frame_end: reset to (1, 250)
ValidRange(fs, fe) == IF fs > fe THEN <<1, 250>> ELSE <<fs, fe>>

\* extract_frames.py:73  max(1, frame_end - frame_start + 1)
ExtractFrameCount(fs, fe) == Max(1, fe - fs + 1)

\* extract_frames.py:52-67, 75-78: a scene attribute that is missing or
\* unreadable takes its default (1, 250, 24)
ExtractReadScene ==
    /\ proc = "extract" /\ pc = "scene"
    /\ IF ~opened
       THEN /\ Propagate(NotOpenedError, pc)
            /\ UNCHANGED locals
       ELSE /\ \E hasStart \in BOOLEAN, hasEnd \in BOOLEAN, hasFps \in BOOLEAN :
                 locals' = [frame_start |-> IF hasStart THEN scene[1].frame_start ELSE 1,
                            frame_end |-> IF hasEnd THEN scene[1].frame_end ELSE 250,
                            frame_count |-> 0,
                            started_at |-> 0,
                            fps |-> IF hasFps THEN scene[1].fps ELSE 24]
            /\ pc' = "range"
            /\ UNCHANGED <<exc, exit>>
    /\ UNCHANGED <<envVars, ladderVars, out, asyncLog, trackVars, scene, outputFile,
                   sniffVars>>

\* extract_frames.py:69-73: the range is made valid and the frames counted
ExtractRange ==
    /\ proc = "extract" /\ pc = "range"
    /\ LET r == ValidRange(locals.frame_start, locals.frame_end)
       IN  locals' = [locals EXCEPT !.frame_start = r[1], !.frame_end = r[2],
                                    !.frame_count = ExtractFrameCount(r[1], r[2])]
    /\ pc' = "emit"
    /\ UNCHANGED <<envVars, ladderVars, exc, out, exit, asyncLog, trackVars, scene,
                   outputFile, sniffVars>>

\* extract_frames.py:80-90
ExtractEmit ==
    /\ proc = "extract" /\ pc = "emit"
    /\ out' = Append(out, Stderr([frame_start |-> locals.frame_start,
                                  frame_end |-> locals.frame_end,
                                  frame_count |-> locals.frame_count,
                                  fps |-> locals.fps]))
    /\ pc' = "done" /\ exit' = <<0>>
    /\ UNCHANGED <<envVars, ladderVars, exc, asyncLog, trackVars, scene, locals,
                   outputFile, sniffVars>>

\* extract_frames.py:92-98
ExtractError ==
    /\ proc = "extract" /\ pc = "ex_print"
    /\ out' = Append(out, Stderr(ExtractErrorRecord(exc[1])))
    /\ pc' = "done" /\ exit' = <<1>>
    /\ UNCHANGED <<envVars, ladderVars, exc, asyncLog, trackVars, scene, locals,
                   outputFile, sniffVars>>

(* ----------------------------- header sniffer --------------------------- *)
\* b'BLENDER'
Magic == <<66, 76, 69, 78, 68, 69, 82>>

\* input files, as bytes: empty, the magic alone, an 11-byte header,
\* BLENDER-v300, BLENDER_V293 with two more bytes, a wrong magic, and a
\* version field holding a byte that is no ASCII
BlendFiles ==
    { <<>>,
      Magic,
      Magic \o <<45, 118, 51, 48>>,
      Magic \o <<45, 118, 51, 48, 48>>,
      Magic \o <<95, 86, 50, 57, 51, 0, 0>>,
      <<66, 76, 69, 78, 68, 69, 114, 45, 118, 51, 48, 48>>,
      Magic \o <<45, 118, 51, 255, 48>> }

\* bytes.decode('ascii', errors='ignore'): bytes above 127 are dropped
DecodeAscii(bytes) == SelectSeq(bytes, LAMBDA b : b < 128)

\* f.read(12)
ReadPrefix(bytes, n) == SubSeq(bytes, 1, IF Len(bytes) < n THEN Len(bytes) ELSE n)

\* a sniffer that does not look at the magic
read_blend_header_nomagic(bytes, readable) ==
    IF ~readable \/ Len(bytes) < 12 THEN <<>>
    ELSE <<[version |-> DecodeAscii(SubSeq(bytes, 10, 12)),
            file_size |-> Len(bytes),
            pointer_size |-> IF bytes[8] = 95 THEN "64-bit" ELSE "32-bit"]>>

\* read_blend_header.py:11-44: <<>> is None
read_blend_header(bytes, readable) ==
    IF ~readable THEN <<>>
    ELSE LET header == ReadPrefix(bytes, 12)
         IN  IF Len(header) < 12 THEN <<>>
             ELSE IF SubSeq(header, 1, 7) # Magic THEN <<>>
             ELSE <<[version |-> DecodeAscii(SubSeq(header, 10, 12)),
                     file_size |-> Len(bytes),
                     pointer_size |-> IF header[8] = 95 THEN "64-bit" ELSE "32-bit"]>>

\* a synthesis with another default range
SniffResult_short(info) ==
    [frame_start |-> 1, frame_end |-> 240, frame_count |-> 240, fps |-> 24,
     note |-> "Estimated values - file could not be fully opened",
     blender_version |-> info.version]

\* read_blend_header.py:59-66
SniffResult(info) ==
    [frame_start |-> 1, frame_end |-> 250, frame_count |-> 250, fps |-> 24,
     note |-> "Estimated values - file could not be fully opened",
     blender_version |-> info.version]

\* read_blend_header.py:49-52
SniffCheck ==
    /\ proc = "sniff" /\ pc = "sniff_check"
    /\ IF inputExists
       THEN pc' = "sniff_read" /\ UNCHANGED <<out, exit>>
       ELSE /\ out' = Append(out, Stderr([error |-> <<"File not found: ", blend_file>>,
                                          error_type |-> "FileNotFoundError"]))
            /\ pc' = "done" /\ exit' = <<1>>
    /\ UNCHANGED <<envVars, ladderVars, exc, asyncLog, trackVars, scene, locals,
                   outputFile, sniffVars>>

\* read_blend_header.py:54  header_info = read_blend_header(blend_file), on a
\* file with some bytes that can or cannot be read
SniffRead ==
    /\ proc = "sniff" /\ pc = "sniff_read"
    /\ \E bytes \in BlendFiles, readable \in BOOLEAN :
          /\ blend' = <<[bytes |-> bytes, readable |-> readable]>>
          /\ header_info' = read_blend_header(bytes, readable)
    /\ pc' = "sniff_emit"
    /\ UNCHANGED <<envVars, ladderVars, exc, out, exit, asyncLog, trackVars, scene,
                   locals, outputFile, fellBack>>

\* read_blend_header.py:56-72
SniffEmit ==
    /\ proc = "sniff" /\ pc = "sniff_emit"
    /\ IF header_info # <<>>
       THEN /\ out' = Append(out, Stderr(SniffResult(header_info[1])))
            /\ exit' = <<0>>
       ELSE /\ out' = Append(out, Stderr([error |-> <<"Could not read blend file header">>,
                                          error_type |-> "ParseError"]))
            /\ exit' = <<1>>
    /\ pc' = "done"
    /\ UNCHANGED <<envVars, ladderVars, exc, asyncLog, trackVars, scene, locals,
                   outputFile, sniffVars>>

\* the caller of the two metadata scripts: when the extractor has reported
\* that no strategy opened the file, the header sniffer is run on the same
\* file as a new process and its record is the result
Fallback ==
    /\ proc = "extract" /\ pc = "done"
    /\ exit = <<1>>
    /\ Len(out) = 1
    /\ out[1].rec.error = <<"Failed to open blend file with any strategy">>
    /\ proc' = "sniff"
    /\ pc' = "sniff_check"
    /\ out' = <<>>
    /\ exit' = <<>>
    /\ fellBack' = TRUE
    /\ UNCHANGED <<inputExists, progress0, handlerInstalled, ladderVars, exc,
                   asyncLog, trackVars, scene, locals, outputFile, blend,
                   header_info>>

(* ------------------------------ specification --------------------------- *)
Next ==
    \/ RegisterHandlers
    \/ CheckInput
    \/ ResetEngine
    \/ OpenFile
    \/ ReadScene
    \/ InstallCallbacks
    \/ CallRender
    \/ EngineFire
    \/ CallbackWrite
    \/ RenderReturn
    \/ VerifyOutput
    \/ WriteCompleted
    \/ EmitResult
    \/ ExitSuccess
    \/ InterruptPrint
    \/ InterruptExit
    \/ ErrorPrint
    \/ ErrorFlush
    \/ ErrorStdout
    \/ ErrorExit
    \/ Deliver
    \/ ExtractReadScene
    \/ ExtractRange
    \/ ExtractEmit
    \/ ExtractError
    \/ SniffCheck
    \/ SniffRead
    \/ SniffEmit
    \/ Fallback

Spec == Init /\ [][Next]_vars

(* ================================ claims ================================= *)
\* the run has ended
Done == pc = "done"

\* no asynchronous event reached the run
Undisturbed == asyncLog = <<>>

\* the calls of the strategy ladder
LadderCalls == SelectSeq(calls, LAMBDA c : c.op # "render")

\* the loop iterations that began, in order: each begins with the reset
AttemptsMade == SelectSeq(calls, LAMBDA c : c.op = "read_homefile")

\* how often strategy j was attempted
AttemptCount(j) == Len(SelectSeq(AttemptsMade, LAMBDA c : c.i = j))

\* the messages of EngineMsgs the fatal-indicator denylist matches: they
\* contain "Segmentation", or "fault" in any case
DenylistMatches == {"Segmentation fault", "GPU FAULT"}

\* C1: every run of the render driver that ends with the signal handler
\* installed, whatever the engine did and wherever intercepted signals were
\* delivered, has emitted exactly one JSON record.
C1_ExactlyOneRecord ==
    ( /\ proc = "render" /\ Done /\ handlerInstalled
      /\ \A k \in 1..Len(asyncLog) : asyncLog[k].num \in Intercepted )
    => Len(out) = 1

\* C2: when one intercepted signal n is delivered while the render call is in
\* progress (a callback writing progress or not), the run ends with exactly
\* one record, of error_type SignalError, and exit code 128 + n.
C2_SignalDuringRender ==
    ( /\ proc = "render" /\ Done
      /\ Len(asyncLog) = 1
      /\ asyncLog[1].num \in Intercepted
      /\ asyncLog[1].at = "render" )
    => /\ Len(out) = 1
       /\ out[1].chan = "stderr"
       /\ out[1].rec.success = FALSE
       /\ out[1].rec.error_type = "SignalError"
       /\ exit = <<128 + asyncLog[1].num>>

\* C2's case: a signal delivered while a callback was writing progress, and
\* the run over
C2_Witness ==
    /\ proc = "render" /\ Done
    /\ Len(asyncLog) = 1
    /\ asyncLog[1].num = 15 /\ asyncLog[1].at = "render" /\ asyncLog[1].cb
    /\ exit = <<143>>

\* C3: in both scripts the strategies are attempted strictly in the declared
\* order, and once strategy i has opened the file each of the strategies
\* before it was attempted exactly once, before it, and none after it was
\* attempted.
C3_LadderOrder ==
    /\ \A k \in 1..Len(AttemptsMade) : AttemptsMade[k].i = k
    /\ \A c \in 1..Len(LadderCalls) : LadderCalls[c].i \in 1..NumStrategies
    /\ opened =>
         \E i \in 1..NumStrategies :
            /\ Last(LadderCalls) = [op |-> "open_mainfile", i |-> i, res |-> "ok"]
            /\ \A j \in 1..NumStrategies :
                  AttemptCount(j) = IF j <= i THEN 1 ELSE 0
            /\ \A c \in 1..(Len(LadderCalls) - 1) : LadderCalls[c].res # "ok"
                                                    \/ LadderCalls[c].op = "read_homefile"

\* C3's case: the last strategy opened the file after the three before it
\* had failed
C3_Witness ==
    /\ opened
    /\ Last(LadderCalls).i = NumStrategies
    /\ AttemptCount(1) = 1 /\ AttemptCount(NumStrategies - 1) = 1

\* C4: a strategy attempt that fails with a message the denylist matches is
\* the last engine call of the run: no later reset, open or render; and an
\* undisturbed run then ends with one error record carrying that message and
\* exit code 1.
C4_FatalAborts ==
    \A k \in 1..Len(calls) :
        calls[k].res \in DenylistMatches /\ calls[k].op # "render" =>
            /\ k = Len(calls)
            /\ ~opened
            /\ (Done /\ Undisturbed /\ ~fellBack) =>
                  /\ Len(out) = 1
                  /\ out[1].rec.error = <<calls[k].res>>
                  /\ out[1].rec.error_type = "RuntimeError"
                  /\ exit = <<1>>

\* C4's case: the second attempt's open failed with "Segmentation fault" and
\* the run is over
C4_Witness ==
    /\ Done /\ Undisturbed
    /\ Len(calls) = 4
    /\ calls[4] = [op |-> "open_mainfile", i |-> 2, res |-> "Segmentation fault"]

\* C5: when the input path does not exist no engine call is ever made, and
\* an undisturbed run of either script ends with one FileNotFoundError record
\* and exit code 1.
C5_MissingInput ==
    (proc \in {"render", "extract"} /\ ~inputExists) =>
        /\ calls = <<>>
        /\ (Done /\ Undisturbed) =>
              /\ Len(out) = 1
              /\ out[1].rec.error_type = "FileNotFoundError"
              /\ exit = <<1>>

\* C5's case: the render driver, input missing, run over
C5_Witness ==
    /\ proc = "render" /\ ~inputExists /\ Done /\ Undisturbed
    /\ Len(out) = 1

\* the file the sniffer met can be read, holds 12 bytes or more and starts
\* with BLENDER
MagicMatches ==
    /\ blend # <<>>
    /\ blend[1].readable
    /\ Len(blend[1].bytes) >= 12
    /\ SubSeq(blend[1].bytes, 1, 7) = <<66, 76, 69, 78, 68, 69, 82>>

\* every strategy was attempted, none opened the file, no failure was fatal
LadderExhausted ==
    /\ ~opened
    /\ \A j \in 1..NumStrategies : AttemptCount(j) = 1
    /\ \A k \in 1..Len(calls) : calls[k].res \notin DenylistMatches \cup {"interrupt"}
    /\ Last(calls).res # "ok"

OkWrites == SelectSeq(writes, LAMBDA w : w.ok)

\* C7: in the sequence of writes of the progress file, no write after a
\* cancelled one sets completed or rendering, and no write after a completed
\* one sets another status.
C7_StatusMonotone ==
    \A j, k \in 1..Len(OkWrites) :
        j < k =>
            /\ OkWrites[j].rec.status = "cancelled" =>
                  OkWrites[k].rec.status \notin {"completed", "rendering"}
            /\ OkWrites[j].rec.status = "completed" =>
                  OkWrites[k].rec.status = "completed"

\* C8: the render driver emits a success record only if the output artifact
\* exists and is non-empty after the render call; when the call returned and
\* the artifact is missing or empty, an undisturbed run ends with a
\* FileNotFoundError record and exit code 1.
C8_SuccessNeedsArtifact ==
    proc = "render" =>
        /\ (\E k \in 1..Len(out) : out[k].rec.success) =>
              outputFile.exists /\ outputFile.size > 0
        /\ ( /\ Done /\ Undisturbed
             /\ calls # <<>> /\ Last(calls) = [op |-> "render", i |-> 0, res |-> "ok"]
             /\ ~(outputFile.exists /\ outputFile.size > 0) )
           => /\ Len(out) = 1
              /\ out[1].rec.error_type = "FileNotFoundError"
              /\ exit = <<1>>

\* C9: every progress payload of one render run carries the same startedAt:
\* the startedAt of the progress record found when the run started, if there
\* was one, and otherwise one time taken before the first write.
C9_StartedAtFixed ==
    /\ \A j, k \in 1..Len(writes) : writes[j].rec.startedAt = writes[k].rec.startedAt
    /\ \A k \in 1..Len(writes) :
          IF progress0.kind = "record"
          THEN writes[k].rec.startedAt = progress0.data[1].startedAt
          ELSE writes[k].rec.startedAt < writes[1].rec.updatedAt

\* C9's case: a record with startedAt 7 was there at the start, and a
\* callback write and the completion write have been made
C9_Witness ==
    /\ progress0.kind = "record"
    /\ Len(writes) >= 3
    /\ writes[1].rec.status = "rendering"
    /\ Last(writes).rec.status = "completed"
    /\ Last(writes).rec.startedAt = 7

\* the writes with status rendering that reached the file, in order
RenderingWrites == SelectSeq(OkWrites, LAMBDA w : w.rec.status = "rendering")

\* C10: from one write with status rendering to the next, framesDone never
\* decreases, whatever callbacks the engine fires with whatever frame_current.
C10_FramesDoneMonotone ==
    \A k \in 1..(Len(RenderingWrites) - 1) :
        RenderingWrites[k].rec.framesDone <= RenderingWrites[k + 1].rec.framesDone

\* the writes of the progress file that failed
FailedWrites == SelectSeq(writes, LAMBDA w : ~w.ok)

\* the record and the exit code of a render run that reached the render call,
\* from how the call ended and whether it left the artifact: nothing here
\* looks at the progress file or at its writes
TerminalOf(res, artifact) ==
    CASE res = "ok" /\ artifact.exists ->
           <<ResultRecord(locals, scene[1], artifact), 0>>
      [] res = "ok" /\ ~artifact.exists ->
           <<[success |-> FALSE,
              error |-> <<"Output file was not created: ", output_path>>,
              error_type |-> "FileNotFoundError"], 1>>
      [] res = "interrupt" ->
           <<[success |-> FALSE, error |-> <<"Process interrupted">>,
              error_type |-> "KeyboardInterrupt"], 130>>
      [] OTHER ->
           <<[success |-> FALSE, error |-> <<res>>, error_type |-> "RuntimeError"], 1>>

\* C11: a write of the progress file that fails, in a callback or in the
\* completion write, raises nothing in the driver, and an undisturbed run with
\* a failed write ends with the one record and the exit code that the end of
\* the render call and the artifact alone decide, as in the run whose writes
\* all succeeded.
C11_WriteFailureSwallowed ==
    (proc = "render" /\ FailedWrites # <<>>) =>
        /\ exc # <<>> => exc[1].type # "OSError"
        /\ (Done /\ Undisturbed) =>
              /\ Len(out) = 1
              /\ out[1].chan = "stderr"
              /\ out[1].rec = TerminalOf(Last(calls).res, outputFile)[1]
              /\ exit = <<TerminalOf(Last(calls).res, outputFile)[2]>>

\* C11's case: a callback's write failed, the render call went on and
\* returned, and the run ended with the success record
C11_Witness ==
    /\ proc = "render" /\ Done /\ Undisturbed
    /\ Len(writes) >= 2
    /\ ~writes[1].ok /\ writes[1].rec.status = "rendering"
    /\ Last(writes).rec.status = "completed"
    /\ Len(out) = 1 /\ out[1].rec.success
    /\ exit = <<0>>

\* the statements of input validation and of the strategy ladder, up to the
\* check that a strategy opened the file
BeforeRenderPhase == {"check", "reset", "open", "scene"}

\* C12 as stated: the signal handler is installed only once the ladder has
\* opened the file, and an intercepted signal delivered during input
\* validation or the ladder is not handled: no SignalError record, the
\* signal's default action ends the process.
C12_ShieldAfterLadder ==
    /\ handlerInstalled => opened
    /\ \A k \in 1..Len(asyncLog) :
          (asyncLog[k].num \in Intercepted /\ asyncLog[k].at \in BeforeRenderPhase) =>
              /\ \A j \in 1..Len(out) : out[j].rec.error_type # "SignalError"
              /\ exit = <<-asyncLog[k].num>>

\* C12 as amended: only the render driver installs the handler, as its first
\* statement, before input validation and the ladder; one intercepted signal
\* n delivered during input validation or the ladder is handled: the run
\* ends with one SignalError record and exit code 128 + n.
C12_ShieldFromStart ==
    /\ handlerInstalled => proc = "render"
    /\ (proc = "render" /\ pc \notin {"boot", "done"}) => handlerInstalled
    /\ ( /\ Len(asyncLog) = 1
         /\ asyncLog[1].num \in Intercepted
         /\ asyncLog[1].at \in BeforeRenderPhase )
       => /\ Done
          /\ Len(out) = 1
          /\ out[1].chan = "stderr"
          /\ out[1].rec = [success |-> FALSE,
                           error |-> <<"Process terminated by signal ",
                                       NumStr(asyncLog[1].num)>>,
                           error_type |-> "SignalError"]
          /\ exit = <<128 + asyncLog[1].num>>

\* C12's case: SIGSEGV delivered while the second strategy's open was about
\* to run, no file opened yet
C12_Witness ==
    /\ proc = "render" /\ Done /\ ~opened
    /\ Len(asyncLog) = 1
    /\ asyncLog[1].num = 11 /\ asyncLog[1].at = "open"
    /\ Len(calls) = 3
    /\ exit = <<139>>

\* C13: in the render driver, once every strategy has failed non-fatally no
\* lifecycle callback is installed, the engine's render is not invoked and
\* the header sniffer is not run, and an undisturbed run ends with one
\* RuntimeError record ("Failed to open blend file with any strategy") and
\* exit code 1.
C13_RenderLadderExhausted ==
    (proc = "render" /\ LadderExhausted) =>
        /\ callbacks = {}
        /\ writes = <<>>
        /\ \A k \in 1..Len(calls) : calls[k].op # "render"
        /\ ~fellBack /\ blend = <<>> /\ header_info = <<>>
        /\ (Done /\ Undisturbed) =>
              /\ Len(out) = 1
              /\ out[1].chan = "stderr"
              /\ out[1].rec = [success |-> FALSE,
                               error |-> <<"Failed to open blend file with any strategy">>,
                               error_type |-> "RuntimeError"]
              /\ exit = <<1>>

\* C13's case: the four strategies failed, two at the reset and two at the
\* open, none fatally, and the render driver's run is over
C13_Witness ==
    /\ proc = "render" /\ Done /\ Undisturbed /\ LadderExhausted
    /\ Len(calls) = 6
    /\ calls[1].res = "segmentation error" /\ calls[1].op = "read_homefile"
    /\ Last(calls).op = "open_mainfile"
    /\ exit = <<1>>

\* a KeyboardInterrupt was raised in the run once the driver's try was
\* entered: by SIGINT at some statement or in a callback, or by an engine call
Interrupted ==
    \/ \E k \in 1..Len(asyncLog) :
          asyncLog[k].num \in Interrupts /\ asyncLog[k].at # "boot"
    \/ \E k \in 1..Len(calls) : calls[k].res = "interrupt"

\* the records of error_type KeyboardInterrupt emitted so far
InterruptRecords ==
    SelectSeq(out, LAMBDA o : ~o.rec.success /\ o.rec.error_type = "KeyboardInterrupt")

\* C14: a run of the render driver in which a KeyboardInterrupt was raised,
\* at whatever point of the try and its except clauses, and nothing else
\* reached it asynchronously, ends with
\* one record of error_type KeyboardInterrupt and exit code 130; an
\* undisturbed run that ends on another exception ends with exit code 1 and
\* a record carrying that exception's message and class name.
C14_InterruptExits130 ==
    (proc = "render" /\ Done) =>
        /\ ( /\ Interrupted
             /\ \A k \in 1..Len(asyncLog) :
                   asyncLog[k].num \in Interrupts /\ asyncLog[k].at # "boot" )
           => /\ Len(InterruptRecords) = 1
              /\ exit = <<130>>
        /\ (Undisturbed /\ ~Interrupted /\ exc # <<>>) =>
              /\ Len(out) = 1
              /\ out[1].rec = [success |-> FALSE, error |-> exc[1].msg,
                               error_type |-> exc[1].type]
              /\ exit = <<1>>

\* C15: the Metadata Extractor turns the range (frame_start, frame_end) it
\* read from the opened scene into (1, 250) with frame_count 250 when
\* frame_start > frame_end, and otherwise keeps it with frame_count
\* max(1, frame_end - frame_start + 1), which is 1 when the two are equal;
\* and the record it emits carries that range and that count.
C15_ExtractRange ==
    /\ [][ (proc = "extract" /\ pc = "range" /\ pc' # "range") =>
              IF locals.frame_start > locals.frame_end
              THEN /\ locals'.frame_start = 1
                   /\ locals'.frame_end = 250
                   /\ locals'.frame_count = 250
              ELSE /\ locals'.frame_start = locals.frame_start
                   /\ locals'.frame_end = locals.frame_end
                   /\ locals'.frame_count =
                         (IF locals.frame_end - locals.frame_start + 1 >= 1
                          THEN locals.frame_end - locals.frame_start + 1 ELSE 1)
                   /\ locals.frame_start = locals.frame_end => locals'.frame_count = 1
          ]_vars
    /\ []( (proc = "extract" /\ Done /\ exit = <<0>>) =>
              /\ Len(out) = 1
              /\ out[1].rec.frame_start = locals.frame_start
              /\ out[1].rec.frame_end = locals.frame_end
              /\ out[1].rec.frame_count = locals.frame_count
              /\ out[1].rec.frame_count >= 1 )

\* C15's case: the opened scene runs from frame 3 to frame 1 and the
\* extractor has emitted the range (1, 250) with 250 frames
C15_Witness ==
    /\ proc = "extract" /\ Done /\ exit = <<0>>
    /\ scene # <<>> /\ scene[1].frame_start = 3 /\ scene[1].frame_end = 1
    /\ Len(out) = 1
    /\ out[1].rec.frame_start = 1
    /\ out[1].rec.frame_end = 250
    /\ out[1].rec.frame_count = 250

\* C16: whatever bytes the file holds, read_blend_header gives None when the
\* file cannot be opened or read, when it is shorter than 12 bytes and when
\* its first 7 bytes are not BLENDER; for a readable file of 12 bytes or more
\* that starts with BLENDER it gives a result whose version is bytes 9-11
\* (counted from 0) decoded as ASCII; and it raises nothing.
C16_HeaderSniffer ==
    blend # <<>> =>
        LET bytes == blend[1].bytes
            wellFormed == /\ Len(bytes) >= 12
                          /\ SubSeq(bytes, 1, 7) = <<66, 76, 69, 78, 68, 69, 82>>
        IN  /\ pc \in {"sniff_emit", "done"}
            /\ ~fellBack => exc = <<>>
            /\ (~blend[1].readable \/ ~wellFormed) => header_info = <<>>
            /\ (blend[1].readable /\ wellFormed) =>
                  /\ header_info # <<>>
                  /\ header_info[1].version =
                        SelectSeq(<<bytes[10], bytes[11], bytes[12]>>,
                                  LAMBDA b : b <= 127)

\* C16's case: a readable 12-byte file BLENDER-v3\xff0 gave a result whose
\* version is "30", and a later state of it
C16_Witness ==
    /\ MagicMatches
    /\ blend[1].bytes[11] = 255
    /\ header_info # <<>>
    /\ header_info[1].version = <<51, 48>>
    /\ header_info[1].pointer_size = "32-bit"

\* the open calls made so far
OpensMade == SelectSeq(calls, LAMBDA c : c.op = "open_mainfile")

\* C17: in both scripts every open call comes right after a reset call of the
\* same attempt that returned, so there are at least as many resets as
\* opens; a reset that fails ends its attempt without an open: if the
\* denylist matches its message it is the last engine call of the run and an
\* undisturbed run ends with that message in a RuntimeError record, and if
\* not, the next call is the reset of the next strategy.
C17_ResetBeforeOpen ==
    /\ \A k \in 1..Len(calls) :
          calls[k].op = "open_mainfile" =>
              /\ k > 1
              /\ calls[k - 1] = [op |-> "read_homefile", i |-> calls[k].i, res |-> "ok"]
    /\ Len(AttemptsMade) >= Len(OpensMade)
    /\ \A k \in 1..Len(calls) :
          (calls[k].op = "read_homefile" /\ calls[k].res \in EngineMsgs) =>
              /\ \A j \in 1..Len(calls) :
                    calls[j].op = "open_mainfile" => calls[j].i # calls[k].i
              /\ IF calls[k].res \in DenylistMatches
                 THEN /\ k = Len(calls)
                      /\ (Done /\ Undisturbed /\ ~fellBack) =>
                            /\ out[1].rec.error = <<calls[k].res>>
                            /\ out[1].rec.error_type = "RuntimeError"
                            /\ exit = <<1>>
                 ELSE k < Len(calls) =>
                        /\ calls[k + 1].op = "read_homefile"
                        /\ calls[k + 1].i = calls[k].i + 1

\* C17's case: the first attempt's reset failed non-fatally, the second
\* attempt reset the engine and opened the file
C17_Witness ==
    /\ opened
    /\ LadderCalls =
         << [op |-> "read_homefile", i |-> 1, res |-> "segmentation error"],
            [op |-> "read_homefile", i |-> 2, res |-> "ok"],
            [op |-> "open_mainfile", i |-> 2, res |-> "ok"] >>

\* the frame metadata (start, end, count) that the claimed rule gives for a
\* scene: an inverted range is replaced by (1, 250), the count is at least 1
RuleMetadata(s) ==
    IF s.frame_start > s.frame_end
    THEN <<1, 250, 250>>
    ELSE <<s.frame_start, s.frame_end,
           IF s.frame_end - s.frame_start + 1 >= 1
           THEN s.frame_end - s.frame_start + 1 ELSE 1>>

\* C18: every progress record the render driver writes and the success
\* record it emits carry the frame range and count that the rule gives for
\* the opened scene: frame_count = max(1, frame_end - frame_start + 1), an
\* inverted range reset to (1, 250), and so a frame_count of 1 or more.
C18_RenderFrameCount ==
    proc = "render" =>
        /\ \A k \in 1..Len(writes) :
              /\ <<writes[k].rec.frameStart, writes[k].rec.frameEnd,
                    writes[k].rec.frameCount>> = RuleMetadata(scene[1])
              /\ writes[k].rec.frameCount >= 1
        /\ \A k \in 1..Len(out) :
              out[k].rec.success =>
                  /\ <<out[k].rec.frame_start, out[k].rec.frame_end,
                        out[k].rec.frame_count>> = RuleMetadata(scene[1])
                  /\ out[k].rec.frame_count >= 1

\* a success record has been emitted
SuccessEmitted == \E k \in 1..Len(out) : out[k].rec.success

\* C19: the write with status completed is attempted only after the render
\* call has returned and the artifact check has passed, with framesDone =
\* frameCount and currentFrame = frameEnd, and before the success record is
\* emitted; no write follows it, so when the render driver exits with code 0
\* the last write attempted in the run is the completed one.
C19_CompletedWriteLast ==
    proc = "render" =>
        /\ \A k \in 1..Len(writes) :
              writes[k].rec.status = "completed" =>
                  /\ k = Len(writes)
                  /\ Last(calls) = [op |-> "render", i |-> 0, res |-> "ok"]
                  /\ outputFile.exists
                  /\ writes[k].rec.framesDone = writes[k].rec.frameCount
                  /\ writes[k].rec.currentFrame = writes[k].rec.frameEnd
        /\ pc = "complete" => ~SuccessEmitted
        /\ (pc = "emit" \/ SuccessEmitted \/ exit = <<0>>) =>
              /\ writes # <<>>
              /\ Last(writes).rec.status = "completed"

\* C19's case: two callbacks wrote, the render call returned, the completed
\* write was attempted and failed, and the driver exited with code 0
C19_Witness ==
    /\ proc = "render" /\ exit = <<0>>
    /\ Len(writes) = 3
    /\ writes[2].rec.status = "rendering"
    /\ writes[3].rec.status = "completed" /\ ~writes[3].ok
    /\ progress.kind = "record" /\ progress.data[1].status = "rendering"

\* what the progress file holds after the writes of the run that reached it:
\* the payload of the last of them, or what it held when the run started
FileAfterWrites ==
    IF OkWrites = <<>> THEN progress0
    ELSE [kind |-> "record", data |-> <<Last(OkWrites).rec>>]

=============================================================================
